---- MODULE Spec2Model ----
(***************************************************************************)
(* Interview session state machine of the Intervu AI backend               *)
(* (services/interview_session.py) and the HTTP handlers of main.py that   *)
(* drive it.                                                               *)
(*                                                                         *)
(* Optional values (Python None) are sequences of length 0 or 1:           *)
(* None is <<>> and a present value v is <<v>>.                            *)
(***************************************************************************)
EXTENDS Integers, Sequences, FiniteSets, TLC

VARIABLES
    sessions,          \* InterviewSession._sessions: session id -> session
    clock,             \* datetime.utcnow(), in ticks
    ret,               \* the last call and what it returned or raised
    successful_calls,  \* history: per session, submit/skip calls that returned
    pending,           \* per client, the session its request in flight addresses
    db,                \* the rows of interview_sessions and interview_answers
    saving             \* per client, the summary handler suspended in an insert

\* what the HTTP layer adds to the state of the session class
httpVars == <<pending, db, saving>>

vars == <<sessions, clock, ret, successful_calls, pending, db, saving>>

\* ---------------------------------------------------------------- bounds
MaxQ == 3
MaxClock == 2
MaxSessions == 2
MaxNumQuestions == 2
MaxSaves == 2

\* ---------------------------------------------------------------- values
None == <<>>

Some(v) == <<v>>

IN_PROGRESS == "in_progress"

COMPLETED == "completed"

ABANDONED == "abandoned"

SessionStatus == {IN_PROGRESS, COMPLETED, ABANDONED}

SessionIds == 1..MaxSessions

\* the clients that may have a request in flight at the same time
Clients == {"c1", "c2"}

Categories == {"introduction", "resume_based", "behavioral"}

AnswerTexts == {"", "A"}

TimesTaken == {None, Some(30)}

\* The 'timestamp' of a response and the user id, resume data, job context and
\* metadata of a session are carried by the code and read by no transition;
\* they are left out of the session record.

QuestionText(i) == "question " \o ToString(i)

\* The question dicts a caller may pass to create_session.  The 'id' key is
\* either absent from every dict ("absent") or carries the generator's number,
\* which need not be the position in the list ("given").
IdStyles == {"absent", "given"}

IdOf(style, i) == IF style = "absent" THEN None ELSE Some(100 + i)

Question(style, i, category) ==
    [id |-> IdOf(style, i), question |-> QuestionText(i), category |-> category]

\* Lists handed to the session class directly: any length from 0.
QuestionLists ==
    { [i \in 1..n |-> Question(style, i, "technical")] :
        n \in 0..MaxQ, style \in IdStyles }

\* ------------------------------------------------------- InterviewSession
\* dict.get('id', default)
GetId(q, default) == IF q.id = None THEN default ELSE q.id[1]

NotSkipped(responses) ==
    Cardinality({ i \in 1..Len(responses) : ~responses[i].skipped })

Skipped(responses) ==
    Cardinality({ i \in 1..Len(responses) : responses[i].skipped })

NoResult == [status |-> "none"]

NewSession(questions, now) ==
    [ questions |-> questions,
      status |-> IN_PROGRESS,
      current_question_index |-> 0,
      responses |-> <<>>,
      start_time |-> now,
      end_time |-> None,
      follow_up_count |-> 0,
      skip_flag |-> FALSE,
      previous_topic |-> None,
      topics_used |-> <<>>,
      conversation_history |-> <<>> ]

\* mutant: the end timestamp is set, the status assignment is forgotten
complete_session_NoStatus(s, now) ==
    [s EXCEPT !.end_time = Some(now)]

\* mutant: the status is set, the end timestamp is forgotten
complete_session_NoEndTime(s, now) ==
    [s EXCEPT !.status = COMPLETED]

complete_session(s, now) ==
    [s EXCEPT !.status = COMPLETED, !.end_time = Some(now)]

\* mutant: abandoning also rewinds the pointer
abandon_session_Rewind(s, now) ==
    [s EXCEPT !.status = ABANDONED, !.end_time = Some(now),
              !.current_question_index = 0]

\* mutant: an end timestamp that is already set is kept
abandon_session_KeepEndTime(s, now) ==
    [s EXCEPT !.status = ABANDONED,
              !.end_time = IF @ = None THEN Some(now) ELSE @]

abandon_session(s, now) ==
    [s EXCEPT !.status = ABANDONED, !.end_time = Some(now)]

\* mutant: the exhaustion check comes before the status check
get_current_question_NoStatusCheck(s, sid, now) ==
    IF s.current_question_index >= Len(s.questions)
    THEN [sess |-> complete_session(s, now), question |-> None]
    ELSE [sess |-> s, question |-> None]

\* mutant: the stored question itself is annotated and returned
get_current_question_InPlace(s, sid, now) ==
    IF s.status # IN_PROGRESS
    THEN [sess |-> s, question |-> None]
    ELSE IF s.current_question_index >= Len(s.questions)
    THEN [sess |-> complete_session(s, now), question |-> None]
    ELSE LET q == s.questions[s.current_question_index + 1]
             annotated == [ id |-> q.id,
                            question |-> q.question,
                            category |-> q.category,
                            question_number |-> s.current_question_index + 1,
                            total_questions |-> Len(s.questions),
                            session_id |-> sid ]
         IN [sess |-> [s EXCEPT !.questions[s.current_question_index + 1] = annotated],
             question |-> Some(annotated)]

\* Returns the session after the call and the returned question (or None).
get_current_question(s, sid, now) ==
    IF s.status # IN_PROGRESS
    THEN [sess |-> s, question |-> None]
    ELSE IF s.current_question_index >= Len(s.questions)
    THEN [sess |-> complete_session(s, now), question |-> None]
    ELSE LET q == s.questions[s.current_question_index + 1]
         IN [sess |-> s,
             question |-> Some([ id |-> q.id,
                                 question |-> q.question,
                                 category |-> q.category,
                                 question_number |-> s.current_question_index + 1,
                                 total_questions |-> Len(s.questions),
                                 session_id |-> sid ])]

\* mutant: the response is appended and the pointer is left where it was
Record_NoAdvance(s, sid, response, okStatus, okMessage, doneMessage, now) ==
    [sess |-> [s EXCEPT !.responses = Append(@, response)],
     err |-> "",
     result |-> [status |-> okStatus, message |-> okMessage],
     question |-> None]

\* mutant: the next question is read before the pointer advances
Record_StaleNext(s, sid, response, okStatus, okMessage, doneMessage, now) ==
    LET s1 == [s EXCEPT !.responses = Append(@, response),
                        !.current_question_index = @ + 1]
    IN IF s1.current_question_index >= Len(s1.questions)
       THEN [sess |-> complete_session(s1, now),
             err |-> "",
             result |-> [ status |-> "completed",
                          message |-> doneMessage,
                          total_questions |-> Len(s1.questions),
                          answered |-> NotSkipped(s1.responses),
                          skipped |-> Skipped(s1.responses) ],
             question |-> None]
       ELSE [sess |-> s1,
             err |-> "",
             result |-> [status |-> okStatus, message |-> okMessage],
             question |-> get_current_question(s, sid, now).question]

\* The part of submit_answer / skip_question after the response is built:
\* append, advance, completion check, outcome.
Record(s, sid, response, okStatus, okMessage, doneMessage, now) ==
    LET s1 == [s EXCEPT !.responses = Append(@, response),
                        !.current_question_index = @ + 1]
    IN IF s1.current_question_index >= Len(s1.questions)
       THEN [sess |-> complete_session(s1, now),
             err |-> "",
             result |-> [ status |-> "completed",
                          message |-> doneMessage,
                          total_questions |-> Len(s1.questions),
                          answered |-> NotSkipped(s1.responses),
                          skipped |-> Skipped(s1.responses) ],
             question |-> None]
       ELSE LET g == get_current_question(s1, sid, now)
            IN [sess |-> g.sess,
                err |-> "",
                result |-> [status |-> okStatus, message |-> okMessage],
                question |-> g.question]

Rejected(s, msg) ==
    [sess |-> s, err |-> msg, result |-> NoResult, question |-> None]

\* mutant: only the exhaustion check guards the call
submit_answer_NoStatusCheck(s, sid, answer_text, time_taken_seconds, now) ==
    IF s.current_question_index >= Len(s.questions)
    THEN Rejected(s, "No more questions available")
    ELSE LET current_question == s.questions[s.current_question_index + 1]
         IN Record(s, sid,
                   [ question_id |-> GetId(current_question, s.current_question_index + 1),
                     question_text |-> current_question.question,
                     answer_text |-> answer_text,
                     skipped |-> FALSE,
                     time_taken_seconds |-> time_taken_seconds,
                     score |-> None,
                     feedback |-> None,
                     follow_up_question |-> None ],
                   "success", "Answer recorded",
                   "Interview completed successfully!", now)

\* mutant: the question's own id is ignored, the position is recorded
submit_answer_PositionId(s, sid, answer_text, time_taken_seconds, now) ==
    IF s.status # IN_PROGRESS
    THEN Rejected(s, "Session is not in progress")
    ELSE IF s.current_question_index >= Len(s.questions)
    THEN Rejected(s, "No more questions available")
    ELSE LET current_question == s.questions[s.current_question_index + 1]
         IN Record(s, sid,
                   [ question_id |-> s.current_question_index + 1,
                     question_text |-> current_question.question,
                     answer_text |-> answer_text,
                     skipped |-> FALSE,
                     time_taken_seconds |-> time_taken_seconds,
                     score |-> None,
                     feedback |-> None,
                     follow_up_question |-> None ],
                   "success", "Answer recorded",
                   "Interview completed successfully!", now)

\* mutant: an elapsed time that was not given is recorded as 0
submit_answer_DefaultTime(s, sid, answer_text, time_taken_seconds, now) ==
    IF s.status # IN_PROGRESS
    THEN Rejected(s, "Session is not in progress")
    ELSE IF s.current_question_index >= Len(s.questions)
    THEN Rejected(s, "No more questions available")
    ELSE LET current_question == s.questions[s.current_question_index + 1]
         IN Record(s, sid,
                   [ question_id |-> GetId(current_question, s.current_question_index + 1),
                     question_text |-> current_question.question,
                     answer_text |-> answer_text,
                     skipped |-> FALSE,
                     time_taken_seconds |->
                         IF time_taken_seconds = None THEN Some(0)
                         ELSE time_taken_seconds,
                     score |-> None,
                     feedback |-> None,
                     follow_up_question |-> None ],
                   "success", "Answer recorded",
                   "Interview completed successfully!", now)

\* mutant: the exhaustion check comes before the status check
submit_answer_ExhaustedFirst(s, sid, answer_text, time_taken_seconds, now) ==
    IF s.current_question_index >= Len(s.questions)
    THEN Rejected(s, "No more questions available")
    ELSE IF s.status # IN_PROGRESS
    THEN Rejected(s, "Session is not in progress")
    ELSE LET current_question == s.questions[s.current_question_index + 1]
         IN Record(s, sid,
                   [ question_id |-> GetId(current_question, s.current_question_index + 1),
                     question_text |-> current_question.question,
                     answer_text |-> answer_text,
                     skipped |-> FALSE,
                     time_taken_seconds |-> time_taken_seconds,
                     score |-> None,
                     feedback |-> None,
                     follow_up_question |-> None ],
                   "success", "Answer recorded",
                   "Interview completed successfully!", now)

submit_answer(s, sid, answer_text, time_taken_seconds, now) ==
    IF s.status # IN_PROGRESS
    THEN Rejected(s, "Session is not in progress")
    ELSE IF s.current_question_index >= Len(s.questions)
    THEN Rejected(s, "No more questions available")
    ELSE LET current_question == s.questions[s.current_question_index + 1]
             response ==
                 [ question_id |-> GetId(current_question, s.current_question_index + 1),
                   question_text |-> current_question.question,
                   answer_text |-> answer_text,
                   skipped |-> FALSE,
                   time_taken_seconds |-> time_taken_seconds,
                   score |-> None,
                   feedback |-> None,
                   follow_up_question |-> None ]
         IN Record(s, sid, response, "success", "Answer recorded",
                   "Interview completed successfully!", now)

\* mutant: the pointer advances and no response is appended
skip_question_NoAppend(s, sid, now) ==
    IF s.status # IN_PROGRESS
    THEN Rejected(s, "Session is not in progress")
    ELSE IF s.current_question_index >= Len(s.questions)
    THEN Rejected(s, "No more questions available")
    ELSE LET s1 == [s EXCEPT !.current_question_index = @ + 1]
         IN IF s1.current_question_index >= Len(s1.questions)
            THEN [sess |-> complete_session(s1, now),
                  err |-> "",
                  result |-> [ status |-> "completed",
                               message |-> "Interview completed!",
                               total_questions |-> Len(s1.questions),
                               answered |-> NotSkipped(s1.responses),
                               skipped |-> Skipped(s1.responses) ],
                  question |-> None]
            ELSE [sess |-> s1,
                  err |-> "",
                  result |-> [status |-> "skipped", message |-> "Question skipped"],
                  question |-> get_current_question(s1, sid, now).question]

skip_question(s, sid, now) ==
    IF s.status # IN_PROGRESS
    THEN Rejected(s, "Session is not in progress")
    ELSE IF s.current_question_index >= Len(s.questions)
    THEN Rejected(s, "No more questions available")
    ELSE LET current_question == s.questions[s.current_question_index + 1]
             response ==
                 [ question_id |-> GetId(current_question, s.current_question_index + 1),
                   question_text |-> current_question.question,
                   answer_text |-> "",
                   skipped |-> TRUE,
                   time_taken_seconds |-> Some(0),
                   score |-> None,
                   feedback |-> None,
                   follow_up_question |-> None ]
         IN Record(s, sid, response, "skipped", "Question skipped",
                   "Interview completed!", now)

\* mutant: answered counts only the responses with a non-empty answer text
get_session_summary_NonEmptyAnswers(s) ==
    [ status |-> s.status,
      total_questions |-> Len(s.questions),
      questions_answered |-> s.current_question_index,
      answered_count |->
          Cardinality({ i \in 1..Len(s.responses) :
                          s.responses[i].answer_text # "" /\ ~s.responses[i].skipped }),
      skipped_count |-> Skipped(s.responses),
      start_time |-> s.start_time,
      end_time |-> s.end_time,
      duration_seconds |-> IF s.end_time # None THEN s.end_time[1] - s.start_time ELSE 0,
      responses |-> s.responses ]

\* mutant: a session without an end timestamp reports the time elapsed so far
get_session_summary_Elapsed(s) ==
    [ status |-> s.status,
      total_questions |-> Len(s.questions),
      questions_answered |-> s.current_question_index,
      answered_count |-> NotSkipped(s.responses),
      skipped_count |-> Skipped(s.responses),
      start_time |-> s.start_time,
      end_time |-> s.end_time,
      duration_seconds |-> IF s.end_time # None THEN s.end_time[1] - s.start_time
                           ELSE clock - s.start_time,
      responses |-> s.responses ]

get_session_summary(s) ==
    [ status |-> s.status,
      total_questions |-> Len(s.questions),
      questions_answered |-> s.current_question_index,
      answered_count |-> NotSkipped(s.responses),
      skipped_count |-> Skipped(s.responses),
      start_time |-> s.start_time,
      end_time |-> s.end_time,
      duration_seconds |-> IF s.end_time # None THEN s.end_time[1] - s.start_time ELSE 0,
      responses |-> s.responses ]

\* ---------------------------------------------------------------- state
Ret(op, sid, err, result, question, answer_text, time_taken_seconds) ==
    [ op |-> op, sid |-> sid, err |-> err, result |-> result,
      question |-> question, answer_text |-> answer_text,
      time_taken_seconds |-> time_taken_seconds ]

Init ==
    /\ sessions = << >>
    /\ clock = 0
    /\ ret = Ret("init", 0, "", NoResult, None, "", None)
    /\ successful_calls = << >>
    /\ pending = [c \in Clients |-> None]
    /\ db = [ interview_sessions |-> <<>>, interview_answers |-> <<>>,
            interview_statistics |-> <<>> ]
    /\ saving = [c \in Clients |-> None]

Min(a, b) == IF a < b THEN a ELSE b

\* The history counter saturates one past the longest list.
Count(sid, err) ==
    IF err = ""
    THEN [successful_calls EXCEPT ![sid] = Min(@ + 1, MaxQ + 1)]
    ELSE successful_calls

Tick ==
    /\ clock < MaxClock
    /\ clock' = clock + 1
    /\ UNCHANGED <<sessions, ret, successful_calls, httpVars>>

\* mutant: the identifier of a new session is always the same
FreshId_Reused == CHOOSE sid \in SessionIds : \A other \in SessionIds : sid <= other

\* uuid.uuid4(): an identifier no session has
FreshId == CHOOSE sid \in SessionIds : sid \notin DOMAIN sessions

Register(sid, s) == (sid :> s) @@ sessions

\* InterviewSession.create_session on a list of questions
CreateSession(questions) ==
    /\ sessions' = Register(FreshId, NewSession(questions, clock))
    /\ successful_calls' = (FreshId :> 0) @@ successful_calls
    /\ ret' = Ret("create_session", FreshId, "", NoResult, None, "", None)
    /\ UNCHANGED <<clock, httpVars>>

GetCurrentQuestion(sid) ==
    LET r == get_current_question(sessions[sid], sid, clock)
    IN /\ sessions' = [sessions EXCEPT ![sid] = r.sess]
       /\ ret' = Ret("get_current_question", sid, "", NoResult, r.question, "", None)
       /\ UNCHANGED <<clock, successful_calls, httpVars>>

SubmitAnswer(sid, answer_text, time_taken_seconds) ==
    LET r == submit_answer(sessions[sid], sid, answer_text, time_taken_seconds, clock)
    IN /\ sessions' = [sessions EXCEPT ![sid] = r.sess]
       /\ ret' = Ret("submit_answer", sid, r.err, r.result, r.question,
                     answer_text, time_taken_seconds)
       /\ successful_calls' = Count(sid, r.err)
       /\ UNCHANGED <<clock, httpVars>>

SkipQuestion(sid) ==
    LET r == skip_question(sessions[sid], sid, clock)
    IN /\ sessions' = [sessions EXCEPT ![sid] = r.sess]
       /\ ret' = Ret("skip_question", sid, r.err, r.result, r.question, "", None)
       /\ successful_calls' = Count(sid, r.err)
       /\ UNCHANGED <<clock, httpVars>>

AbandonSession(sid) ==
    /\ sessions' = [sessions EXCEPT ![sid] = abandon_session(@, clock)]
    /\ ret' = Ret("abandon_session", sid, "", NoResult, None, "", None)
    /\ UNCHANGED <<clock, successful_calls, httpVars>>

\* complete_session called by a user of the class: it checks nothing
CompleteSession(sid) ==
    /\ sessions' = [sessions EXCEPT ![sid] = complete_session(@, clock)]
    /\ ret' = Ret("complete_session", sid, "", NoResult, None, "", None)
    /\ UNCHANGED <<clock, successful_calls, httpVars>>

GetSessionSummary(sid) ==
    /\ ret' = Ret("get_session_summary", sid, "", get_session_summary(sessions[sid]),
                  None, "", None)
    /\ UNCHANGED <<sessions, clock, successful_calls, httpVars>>

\* One session object and every method a caller may invoke on it.
Next ==
    \/ Tick
    \/ \E questions \in QuestionLists : DOMAIN sessions = {} /\ CreateSession(questions)
    \/ \E sid \in DOMAIN sessions : GetCurrentQuestion(sid)
    \/ \E sid \in DOMAIN sessions, a \in AnswerTexts, t \in TimesTaken :
           SubmitAnswer(sid, a, t)
    \/ \E sid \in DOMAIN sessions : SkipQuestion(sid)
    \/ \E sid \in DOMAIN sessions : AbandonSession(sid)
    \/ \E sid \in DOMAIN sessions : CompleteSession(sid)
    \/ \E sid \in DOMAIN sessions : GetSessionSummary(sid)

Spec == Init /\ [][Next]_vars


\* ------------------------------------------------------------ collaborators
\* str.strip() and len(str.split()) on the answer text. Whitespace holds the
\* characters str.isspace() accepts that a string of this module can hold:
\* space, newline, tab, carriage return, form feed, then U+000B, U+001C to
\* U+001F, U+0085, U+00A0 and U+1680 written as the characters themselves.
\* The remaining ones (U+2000 to U+200A, U+2028, U+2029, U+202F, U+205F,
\* U+3000) cannot be written in a string here, so no string of the model
\* contains them.
Whitespace ==
    { " ", "\n", "\t", "\r", "\f",
      "", "", "", "", "", "", " ", " " }

RECURSIVE LStrip(_)
LStrip(str) ==
    IF str = "" THEN ""
    ELSE IF Head(str) \in Whitespace THEN LStrip(Tail(str)) ELSE str

RECURSIVE RStrip(_)
RStrip(str) ==
    IF str = "" THEN ""
    ELSE IF SubSeq(str, Len(str), Len(str)) \in Whitespace
         THEN RStrip(SubSeq(str, 1, Len(str) - 1))
         ELSE str

Strip(str) == RStrip(LStrip(str))

RECURSIVE WordCount(_)
WordCount(str) ==
    LET s1 == LStrip(str)
    IN IF s1 = "" THEN 0
       ELSE IF Len(s1) = 1 THEN 1
       ELSE IF Head(Tail(s1)) \in Whitespace
            THEN 1 + WordCount(Tail(s1))
            ELSE WordCount(Tail(s1))

\* What chat_completion returns for the evaluation prompt: None (no key, HTTP
\* error, any exception), or a text that is not JSON ("text"), JSON that is
\* not an object ("array"), or a JSON object whose keys may be absent (None).
\* A score is an integer or a value int() rejects.  The feedback and the
\* follow-up question of an object are JSON values the evaluator hands on as
\* they are: a text, or the float NaN, which json.loads accepts and the JSON
\* encoder of a response refuses.
Text(str) == [json |-> "string", value |-> str]

NaN == [json |-> "number", value |-> "NaN"]

Number(v) == [numeric |-> TRUE, value |-> v]

NotANumber == [numeric |-> FALSE, value |-> 0]

Reply(kind, feedback, score, follow_up_question) ==
    [ kind |-> kind, feedback |-> feedback, score |-> score,
      follow_up_question |-> follow_up_question ]

EvaluationReplies ==
    { None,
      Some(Reply("text", None, None, None)),
      Some(Reply("array", None, None, None)),
      Some(Reply("object", Some(Text("Solid answer.")), Some(Number(7)), Some(None))),
      Some(Reply("object", Some(Text("Too vague.")), Some(Number(15)), Some(Some(Text("Why?"))))),
      Some(Reply("object", None, None, None)),
      Some(Reply("object", Some(Text("Hard to say.")), Some(NotANumber), None)),
      Some(Reply("object", Some(NaN), Some(Number(7)), Some(None))),
      Some(Reply("object", Some(Text("Fine.")), Some(Number(7)), Some(Some(NaN)))) }

Evaluation(feedback, score, follow_up_question) ==
    [feedback |-> feedback, score |-> score, follow_up_question |-> follow_up_question]

\* mutant: the length is taken before trimming
generate_fallback_evaluation_RawLength(answer) ==
    LET answer_length == Len(answer)
    IN IF answer_length < 50
       THEN Evaluation(Text("Your answer is quite brief. Try to provide more details and examples."),
                       4, Some(Text("Can you elaborate more on this with specific examples?")))
       ELSE IF answer_length < 150
       THEN Evaluation(Text("Good start! Consider adding more depth and specific examples to strengthen your answer."),
                       6, None)
       ELSE Evaluation(Text("Thank you for the detailed response. Make sure your answer directly addresses all aspects of the question."),
                       7, None)

generate_fallback_evaluation(answer) ==
    LET answer_length == Len(Strip(answer))
    IN IF answer_length < 50
       THEN Evaluation(Text("Your answer is quite brief. Try to provide more details and examples."),
                       4, Some(Text("Can you elaborate more on this with specific examples?")))
       ELSE IF answer_length < 150
       THEN Evaluation(Text("Good start! Consider adding more depth and specific examples to strengthen your answer."),
                       6, None)
       ELSE Evaluation(Text("Thank you for the detailed response. Make sure your answer directly addresses all aspects of the question."),
                       7, None)

Max(a, b) == IF a > b THEN a ELSE b

\* mutant: without a usable reply there is no evaluation
evaluate_answer_NoFallback(candidate_answer, reply) ==
    IF candidate_answer = "" \/ Len(Strip(candidate_answer)) < 10
    THEN Evaluation(Text("No substantial answer provided. Consider elaborating on your response."),
                    1, None)
    ELSE IF reply = None \/ reply[1].kind # "object"
    THEN Evaluation("", 0, None)
    ELSE LET e == reply[1]
             score == IF e.score = None THEN Number(5) ELSE e.score[1]
         IN Evaluation(IF e.feedback = None THEN Text("Answer received.") ELSE e.feedback[1],
                       IF score.numeric THEN Max(1, Min(10, score.value)) ELSE 5,
                       IF e.follow_up_question = None THEN None
                       ELSE e.follow_up_question[1])

\* mutant: the reply's score is kept as it came
evaluate_answer_NoClamp(candidate_answer, reply) ==
    IF candidate_answer = "" \/ Len(Strip(candidate_answer)) < 10
    THEN Evaluation(Text("No substantial answer provided. Consider elaborating on your response."),
                    1, None)
    ELSE IF reply = None
    THEN generate_fallback_evaluation(candidate_answer)
    ELSE IF reply[1].kind # "object"
    THEN generate_fallback_evaluation(candidate_answer)
    ELSE LET e == reply[1]
             score == IF e.score = None THEN Number(5) ELSE e.score[1]
         IN Evaluation(IF e.feedback = None THEN Text("Answer received.") ELSE e.feedback[1],
                       IF score.numeric THEN score.value ELSE 5,
                       IF e.follow_up_question = None THEN None
                       ELSE e.follow_up_question[1])

evaluate_answer(candidate_answer, reply) ==
    IF candidate_answer = "" \/ Len(Strip(candidate_answer)) < 10
    THEN Evaluation(Text("No substantial answer provided. Consider elaborating on your response."),
                    1, None)
    ELSE IF reply = None
    THEN generate_fallback_evaluation(candidate_answer)
    ELSE IF reply[1].kind # "object"
    THEN generate_fallback_evaluation(candidate_answer)
    ELSE LET e == reply[1]
             score == IF e.score = None THEN Number(5) ELSE e.score[1]
         IN Evaluation(IF e.feedback = None THEN Text("Answer received.") ELSE e.feedback[1],
                       IF score.numeric THEN Max(1, Min(10, score.value)) ELSE 5,
                       IF e.follow_up_question = None THEN None
                       ELSE e.follow_up_question[1])

\* What chat_completion returns for the acknowledgment prompt: None or a text.
ResponderReplies == {None, Some(" Thanks, that helps. ")}

FallbackResponses ==
    << "Thanks for sharing.", "I see. Good context.", "Got it. Interesting.",
       "Understood.", "That makes sense.", "Okay, thanks.", "Interesting.",
       "Alright, clear." >>

\* mutant: the word count is looked at before the skip flag
generate_fallback_response_LengthFirst(answer, skip_flag, hash) ==
    IF WordCount(answer) < 15 THEN "I see. Thanks for that."
    ELSE IF skip_flag THEN "No worries, we can revisit that later."
    ELSE FallbackResponses[(hash % Len(FallbackResponses)) + 1]

\* hash is the value of hash(answer), which Python seeds per process
generate_fallback_response(answer, skip_flag, hash) ==
    IF skip_flag THEN "No worries, we can revisit that later."
    ELSE IF WordCount(answer) < 15 THEN "I see. Thanks for that."
    ELSE FallbackResponses[(hash % Len(FallbackResponses)) + 1]

generate_interviewer_response(candidate_answer, skip_flag, reply, hash) ==
    IF reply = None \/ reply = Some("")
    THEN generate_fallback_response(candidate_answer, skip_flag, hash)
    ELSE Strip(reply[1])

\* ------------------------------------------------------------ HTTP handlers
HttpAnswers == {"A", "I built a REST API"}

HttpTimes == {Some(30)}

\* the gateway replies the handlers are run against: a failure and an object
HttpEvaluationReplies ==
    { None,
      Some(Reply("object", Some(Text("Too vague.")), Some(Number(15)), Some(Some(Text("Why?"))))) }

Hashes == 0..1

\* The lists generate_interview_questions returns for num_questions up to
\* MaxNumQuestions: validate_questions gives every dict an id and one of the
\* valid categories, and the first question is the introduction.  The list is
\* empty when nothing valid was generated.
GeneratedQuestion(i, category) ==
    [id |-> Some(i), question |-> QuestionText(i), category |-> category]

RECURSIVE GeneratedOfLen(_)
GeneratedOfLen(n) ==
    IF n = 0 THEN { <<>> }
    ELSE IF n = 1 THEN { <<GeneratedQuestion(1, "introduction")>> }
    ELSE { Append(l, GeneratedQuestion(n, c)) :
             l \in GeneratedOfLen(n - 1), c \in {"resume_based", "behavioral"} }

GeneratedLists == UNION { GeneratedOfLen(n) : n \in 0..MaxNumQuestions }

OpeningQuestion ==
    [id |-> Some(1), question |-> "opening question", category |-> "introduction"]

Reject(s, detail) ==
    [sess |-> s, err |-> detail, result |-> NoResult, question |-> None, inner |-> "-"]

\* Each handler maps the looked-up session (None when the id is unknown) to
\* the session after the request, the error detail ("" on success), the
\* response body, and in 'inner' the error of the session method it called
\* ("-" when the method was not reached).
get_session_endpoint(found, sid, now) ==
    IF found = None THEN Reject(None, "404 Session not found")
    ELSE LET g == get_current_question(found[1], sid, now)
         IN [sess |-> Some(g.sess), err |-> "",
             result |-> [ status |-> g.sess.status,
                          current |-> g.sess.current_question_index + 1,
                          total |-> Len(g.sess.questions) ],
             question |-> g.question, inner |-> "-"]

\* JSONResponse(content=...) renders its body with allow_nan=False: a NaN in
\* the evaluation raises ValueError with this message, after the session has
\* changed, and the handler's except Exception answers 500 with it.
NotJSONCompliant == "Out of range float values are not JSON compliant"

Renderable(evaluation) ==
    /\ evaluation.feedback # NaN
    /\ evaluation.follow_up_question # Some(NaN)

\* mutant: the evaluation is merged into the first entry of the log
submit_answer_endpoint_MergeFirst(found, sid, answer_text, time_taken_seconds, reply, now) ==
    IF found = None THEN Reject(None, "404 Session not found")
    ELSE LET g == get_current_question(found[1], sid, now)
         IN IF g.question = None
            THEN Reject(Some(g.sess), "400 No active question to answer")
            ELSE LET evaluation == evaluate_answer(answer_text, reply)
                     r == submit_answer(g.sess, sid, answer_text, time_taken_seconds, now)
                     n == Len(r.sess.responses)
                     merged ==
                         IF n = 0 THEN r.sess
                         ELSE [r.sess EXCEPT
                                 !.responses[1].score = Some(evaluation.score),
                                 !.responses[1].feedback = Some(evaluation.feedback),
                                 !.responses[1].follow_up_question =
                                     Some(evaluation.follow_up_question)]
                 IN IF r.err # ""
                    THEN [sess |-> Some(r.sess),
                          err |-> "500 Failed to submit answer: " \o r.err,
                          result |-> NoResult, question |-> None, inner |-> r.err]
                    ELSE IF ~Renderable(evaluation)
                    THEN [sess |-> Some(merged),
                          err |-> "500 Failed to submit answer: " \o NotJSONCompliant,
                          result |-> NoResult, question |-> None, inner |-> ""]
                    ELSE [sess |-> Some(merged), err |-> "",
                          result |-> [ status |-> r.result.status,
                                       evaluation |-> evaluation,
                                       result |-> r.result ],
                          question |-> r.question, inner |-> ""]

submit_answer_endpoint(found, sid, answer_text, time_taken_seconds, reply, now) ==
    IF found = None THEN Reject(None, "404 Session not found")
    ELSE LET g == get_current_question(found[1], sid, now)
         IN IF g.question = None
            THEN Reject(Some(g.sess), "400 No active question to answer")
            ELSE LET evaluation == evaluate_answer(answer_text, reply)
                     r == submit_answer(g.sess, sid, answer_text, time_taken_seconds, now)
                     n == Len(r.sess.responses)
                     merged ==
                         IF n = 0 THEN r.sess
                         ELSE [r.sess EXCEPT
                                 !.responses[n].score = Some(evaluation.score),
                                 !.responses[n].feedback = Some(evaluation.feedback),
                                 !.responses[n].follow_up_question =
                                     Some(evaluation.follow_up_question)]
                 IN IF r.err # ""
                    THEN [sess |-> Some(r.sess),
                          err |-> "500 Failed to submit answer: " \o r.err,
                          result |-> NoResult, question |-> None, inner |-> r.err]
                    ELSE IF ~Renderable(evaluation)
                    THEN [sess |-> Some(merged),
                          err |-> "500 Failed to submit answer: " \o NotJSONCompliant,
                          result |-> NoResult, question |-> None, inner |-> ""]
                    ELSE [sess |-> Some(merged), err |-> "",
                          result |-> [ status |-> r.result.status,
                                       evaluation |-> evaluation,
                                       result |-> r.result ],
                          question |-> r.question, inner |-> ""]

\* mutant: the follow-up counter is reset and the skip flag is not set
set_skip_flag_CounterOnly(s) ==
    [s EXCEPT !.follow_up_count = 0]

\* session.skip_flag = True; session.follow_up_count = 0
set_skip_flag(s) ==
    [s EXCEPT !.skip_flag = TRUE, !.follow_up_count = 0]

skip_question_endpoint(found, sid, now) ==
    IF found = None THEN Reject(None, "404 Session not found")
    ELSE LET flagged == set_skip_flag(found[1])
             r == skip_question(flagged, sid, now)
         IN IF r.err # ""
            THEN [sess |-> Some(r.sess),
                  err |-> "500 Failed to skip question: " \o r.err,
                  result |-> NoResult, question |-> None, inner |-> r.err]
            ELSE [sess |-> Some(r.sess), err |-> "",
                  result |-> [status |-> r.result.status, result |-> r.result],
                  question |-> r.question, inner |-> ""]

\* bool(session.previous_topic and session.previous_topic != current_topic)
topic_changed(previous_topic, current_topic) ==
    /\ previous_topic # None
    /\ previous_topic[1] # ""
    /\ previous_topic[1] # current_topic

\* mutant: the turn is added to the history and the skip flag is left as it was
update_conversation_KeepFlag(s, answer_text, interviewer_response) ==
    [s EXCEPT
       !.conversation_history =
           @ \o << [role |-> "candidate", message |-> answer_text],
                   [role |-> "interviewer", message |-> interviewer_response] >>]

\* mutant: each acknowledged turn counts as a follow-up
update_conversation_CountFollowUp(s, answer_text, interviewer_response) ==
    [s EXCEPT
       !.skip_flag = FALSE,
       !.follow_up_count = @ + 1,
       !.conversation_history =
           @ \o << [role |-> "candidate", message |-> answer_text],
                   [role |-> "interviewer", message |-> interviewer_response] >>]

\* what the handler does between the responder's return and submit_answer:
\* the skip flag is reset and the turn is added to the history
update_conversation(s, answer_text, interviewer_response) ==
    [s EXCEPT
       !.skip_flag = FALSE,
       !.conversation_history =
           @ \o << [role |-> "candidate", message |-> answer_text],
                   [role |-> "interviewer", message |-> interviewer_response] >>]

conversational_answer_endpoint(found, sid, answer_text, time_taken_seconds, reply, hash, now) ==
    IF found = None THEN Reject(None, "404 Session not found")
    ELSE LET g == get_current_question(found[1], sid, now)
         IN IF g.question = None
            THEN Reject(Some(g.sess), "400 No active question to answer")
            ELSE LET current_topic == g.question[1].category
                     s1 == IF topic_changed(g.sess.previous_topic, current_topic)
                           THEN [g.sess EXCEPT
                                   !.follow_up_count = 0,
                                   !.previous_topic = Some(current_topic),
                                   !.topics_used =
                                       IF \E k \in 1..Len(@) : @[k] = current_topic
                                       THEN @ ELSE Append(@, current_topic)]
                           ELSE g.sess
                     interviewer_response ==
                         generate_interviewer_response(answer_text, s1.skip_flag, reply, hash)
                     s2 == update_conversation(s1, answer_text, interviewer_response)
                     r == submit_answer(s2, sid, answer_text, time_taken_seconds, now)
                     next == get_current_question(r.sess, sid, now)
                 IN IF r.err # ""
                    THEN [sess |-> Some(r.sess),
                          err |-> "500 Failed to process answer: " \o r.err,
                          result |-> NoResult, question |-> None, inner |-> r.err]
                    ELSE [sess |-> Some(next.sess), err |-> "",
                          result |-> [ status |-> r.result.status,
                                       interviewer_response |-> interviewer_response,
                                       skip_flag |-> s1.skip_flag,
                                       follow_up_count |-> s1.follow_up_count,
                                       is_complete |-> (next.question = None),
                                       current |-> next.sess.current_question_index + 1,
                                       total |-> Len(next.sess.questions) ],
                          question |-> next.question, inner |-> ""]

get_session(sid) == IF sid \in DOMAIN sessions THEN Some(sessions[sid]) ELSE None

\* InterviewSession.get_session as a call of its own: the stored session or None
GetSession(sid) ==
    /\ ret' = Ret("get_session", sid, "", [status |-> "looked up", session |-> get_session(sid)],
                  None, "", None)
    /\ UNCHANGED <<sessions, clock, successful_calls, httpVars>>

\* the lists the sessions of the store specification are created with
StoreQuestionLists ==
    { <<Question("given", 1, "technical")>>,
      <<Question("absent", 1, "technical"), Question("absent", 2, "technical")>> }

\* Several sessions in the store, created at any time, each driven by its
\* own calls, and lookups of stored and of unknown identifiers.
NextStore ==
    \/ \E questions \in StoreQuestionLists :
           Cardinality(DOMAIN sessions) < MaxSessions /\ CreateSession(questions)
    \/ \E sid \in DOMAIN sessions : GetCurrentQuestion(sid)
    \/ \E sid \in DOMAIN sessions : SubmitAnswer(sid, "A", None)
    \/ \E sid \in DOMAIN sessions : SkipQuestion(sid)
    \/ \E sid \in DOMAIN sessions : AbandonSession(sid)
    \/ \E sid \in SessionIds \cup {0} : GetSession(sid)

SpecStore == Init /\ [][NextStore]_vars

\* The handlers are coroutines of one event loop and contain no await: a
\* handler that has started runs to its return before another one starts.
\* Requests in flight are therefore served one at a time, in any order.
\* A request addresses a stored session or an id that was never issued (0).
Arrive(c, sid) ==
    /\ pending[c] = None
    /\ pending' = [pending EXCEPT ![c] = Some(sid)]
    /\ UNCHANGED <<sessions, clock, ret, successful_calls, db, saving>>

\* the state after the handler of client c's request returned h
Respond(c, op, h, answer_text, time_taken_seconds) ==
    LET sid == pending[c][1]
    IN /\ saving[c] = None
       /\ sessions' = IF h.sess = None THEN sessions
                      ELSE [sessions EXCEPT ![sid] = h.sess[1]]
       /\ ret' = Ret(op, sid, h.err, h.result, h.question, answer_text, time_taken_seconds)
       /\ successful_calls' = IF h.inner = "" THEN Count(sid, "") ELSE successful_calls
       /\ pending' = [pending EXCEPT ![c] = None]
       /\ UNCHANGED <<clock, db, saving>>

GetSessionEndpoint(c) ==
    /\ pending[c] # None
    /\ Respond(c, "get_session_endpoint",
               get_session_endpoint(get_session(pending[c][1]), pending[c][1], clock),
               "", None)

SubmitAnswerEndpoint(c, answer_text, time_taken_seconds, reply) ==
    /\ pending[c] # None
    /\ Respond(c, "submit_answer_endpoint",
               submit_answer_endpoint(get_session(pending[c][1]), pending[c][1],
                                      answer_text, time_taken_seconds, reply, clock),
               answer_text, time_taken_seconds)

SkipQuestionEndpoint(c) ==
    /\ pending[c] # None
    /\ Respond(c, "skip_question_endpoint",
               skip_question_endpoint(get_session(pending[c][1]), pending[c][1], clock),
               "", None)

ConversationalAnswerEndpoint(c, answer_text, time_taken_seconds, reply, hash) ==
    /\ pending[c] # None
    /\ Respond(c, "conversational_answer_endpoint",
               conversational_answer_endpoint(get_session(pending[c][1]), pending[c][1],
                                              answer_text, time_taken_seconds, reply,
                                              hash, clock),
               answer_text, time_taken_seconds)

\* POST /api/session/create on the generator's list
CreateSessionEndpoint(questions) ==
    IF questions = <<>>
    THEN /\ ret' = Ret("create_session_endpoint", 0, "500 Failed to generate questions",
                       NoResult, None, "", None)
         /\ UNCHANGED <<sessions, clock, successful_calls, httpVars>>
    ELSE LET s == NewSession(questions, clock)
             g == get_current_question(s, FreshId, clock)
         IN /\ sessions' = Register(FreshId, g.sess)
            /\ successful_calls' = (FreshId :> 0) @@ successful_calls
            /\ ret' = Ret("create_session_endpoint", FreshId, "", NoResult,
                          g.question, "", None)
            /\ UNCHANGED <<clock, httpVars>>

\* POST /api/session/create-conversational: the first question is replaced
CreateConversationalSessionEndpoint(questions) ==
    IF questions = <<>>
    THEN /\ ret' = Ret("create_conversational_session_endpoint", 0,
                       "500 Failed to generate questions", NoResult, None, "", None)
         /\ UNCHANGED <<sessions, clock, successful_calls, httpVars>>
    ELSE LET s == NewSession([questions EXCEPT ![1] = OpeningQuestion], clock)
             g == get_current_question(s, FreshId, clock)
         IN /\ sessions' = Register(FreshId, g.sess)
            /\ successful_calls' = (FreshId :> 0) @@ successful_calls
            /\ ret' = Ret("create_conversational_session_endpoint", FreshId, "",
                          NoResult, g.question, "", None)
            /\ UNCHANGED <<clock, httpVars>>

\* One session created over HTTP and the requests of the clients on it.
NextHttp ==
    \/ \E questions \in GeneratedLists :
           DOMAIN sessions = {} /\ CreateSessionEndpoint(questions)
    \/ \E questions \in GeneratedLists :
           DOMAIN sessions = {} /\ CreateConversationalSessionEndpoint(questions)
    \/ \E c \in Clients, sid \in DOMAIN sessions \cup {0} : Arrive(c, sid)
    \/ \E c \in Clients : GetSessionEndpoint(c)
    \/ \E c \in Clients, a \in HttpAnswers, t \in HttpTimes,
          reply \in HttpEvaluationReplies :
           SubmitAnswerEndpoint(c, a, t, reply)
    \/ \E c \in Clients : SkipQuestionEndpoint(c)
    \/ \E c \in Clients, a \in HttpAnswers, t \in HttpTimes,
          reply \in ResponderReplies, hash \in Hashes :
           ConversationalAnswerEndpoint(c, a, t, reply, hash)

SpecHttp == Init /\ [][NextHttp]_vars

\* ---------------------------------------------------- the summary handler
\* get_user_if_authenticated: None for an anonymous request, a rejected token
\* or a disabled database, the user otherwise
Users == {None, Some("u1")}

\* the answers the summary specification submits (the text may be empty) and
\* the gateway's replies to the evaluation prompt of the long one
SummaryAnswers == {"", "I built a REST API"}

SummaryReplies == {None, Some(Reply("object", Some(NaN), Some(Number(7)), Some(None)))}

\* the session_data the handler builds before insert_completed_session
session_data(s, summary) ==
    [ total_questions |-> Len(s.questions),
      answered_questions |->
          Cardinality({ i \in 1..Len(s.responses) :
                          s.responses[i].answer_text # "" /\ ~s.responses[i].skipped }),
      skipped_questions |-> Skipped(s.responses),
      duration_seconds |-> summary.duration_seconds ]

\* the rows the handler builds for insert_answers_bulk; the 'evaluation' key
\* it reads is in no response, so the score of every row is None
answer_rows(s, db_session_id) ==
    [ i \in 1..Len(s.responses) |->
        [ session_id |-> db_session_id,
          question_number |-> i,
          question_text |-> IF i <= Len(s.questions) THEN s.questions[i].question ELSE "",
          answer_text |-> s.responses[i].answer_text,
          is_skipped |-> s.responses[i].skipped,
          duration_seconds |-> s.responses[i].time_taken_seconds,
          score |-> None ] ]

\* The summary dict the handler holds across its suspensions: the values
\* get_session_summary computed when the request started.  Its 'responses'
\* entry is the session's own list, not a copy, so it is not held here.
held_summary(summary) ==
    [ k \in DOMAIN summary \ {"responses"} |-> summary[k] ]

\* The summary as the body shows it when the handler returns: the held
\* values and the session's list of responses as it is then.
rendered_summary(held, s) ==
    [ k \in DOMAIN held \cup {"responses"} |->
        IF k = "responses" THEN s.responses ELSE held[k] ]

SummaryResult(summary, saved_to_database, db_session_id) ==
    [ status |-> summary.status, summary |-> summary,
      saved_to_database |-> saved_to_database, db_session_id |-> db_session_id ]

\* json.dumps(..., allow_nan=False) accepts every response of the list
RenderableResponses(responses) ==
    \A i \in 1..Len(responses) :
        /\ responses[i].feedback # Some(NaN)
        /\ responses[i].follow_up_question # Some(Some(NaN))

\* the handler of client c returns
Finish(c, err, result) ==
    /\ ret' = Ret("get_session_summary_endpoint", pending[c][1], err, result,
                  None, "", None)
    /\ pending' = [pending EXCEPT ![c] = None]
    /\ saving' = [saving EXCEPT ![c] = None]

\* return JSONResponse(content=response_data): the body is rendered now, and
\* a NaN in the list of responses makes the handler answer 500 instead
JSONResponse(c, held, saved_to_database, db_session_id) ==
    LET s == sessions[pending[c][1]]
    IN IF RenderableResponses(s.responses)
       THEN Finish(c, "", SummaryResult(rendered_summary(held, s),
                                        saved_to_database, db_session_id))
       ELSE Finish(c, "500 Failed to get session summary: " \o NotJSONCompliant,
                   NoResult)

\* if SUPABASE_ENABLED and user
ShouldSave(s, user) == user # None

\* GET /api/session/{id}/summary up to its first suspension: the lookup, the
\* summary and, for an authenticated user, the session row to insert.  The
\* overall evaluation added to the body is derived from the scores of the
\* responses and is left out.
GetSessionSummaryEndpoint(c, user) ==
    /\ pending[c] # None
    /\ saving[c] = None
    /\ LET sid == pending[c][1]
           found == get_session(sid)
       IN IF found = None
          THEN /\ Finish(c, "404 Session not found", NoResult)
               /\ UNCHANGED <<sessions, clock, successful_calls, db>>
          ELSE LET summary == get_session_summary(found[1])
               IN IF ~ShouldSave(found[1], user)
                  THEN /\ JSONResponse(c, held_summary(summary), FALSE, None)
                       /\ UNCHANGED <<sessions, clock, successful_calls, db>>
                  ELSE /\ Len(db.interview_sessions)
                            + Cardinality({ k \in Clients : saving[k] # None }) < MaxSaves
                       /\ saving' = [saving EXCEPT ![c] =
                              Some([ pc |-> "insert_completed_session",
                                     user_id |-> user[1],
                                     session_data |-> session_data(found[1], summary),
                                     summary |-> held_summary(summary),
                                     db_session_id |-> 0,
                                     answers |-> <<>>,
                                     stats_data |-> None ])]
                       /\ UNCHANGED <<sessions, clock, ret, successful_calls, pending, db>>

\* insert_completed_session returned (ok) or raised: the row is in the table
\* and the handler builds the answer rows from the responses as they are now
InsertCompletedSession(c, ok) ==
    /\ saving[c] # None
    /\ saving[c][1].pc = "insert_completed_session"
    /\ LET h == saving[c][1]
           sid == pending[c][1]
           db_session_id == Len(db.interview_sessions) + 1
           answers == answer_rows(sessions[sid], db_session_id)
       IN IF ~ok
          THEN /\ JSONResponse(c, h.summary, FALSE, None)
               /\ UNCHANGED <<sessions, clock, successful_calls, db>>
          ELSE /\ db' = [db EXCEPT !.interview_sessions =
                            Append(@, [id |-> db_session_id, user_id |-> h.user_id,
                                       session_data |-> h.session_data])]
               /\ saving' = [saving EXCEPT ![c] =
                      Some([h EXCEPT !.pc = IF answers # <<>> THEN "insert_answers_bulk"
                                            ELSE "get_user_sessions",
                                     !.db_session_id = db_session_id,
                                     !.answers = answers])]
               /\ UNCHANGED <<sessions, clock, ret, successful_calls, pending>>

\* insert_answers_bulk returned (ok) or raised
InsertAnswersBulk(c, ok) ==
    /\ saving[c] # None
    /\ saving[c][1].pc = "insert_answers_bulk"
    /\ LET h == saving[c][1]
       IN IF ~ok
          THEN /\ JSONResponse(c, h.summary, FALSE, None)
               /\ UNCHANGED <<sessions, clock, successful_calls, db>>
          ELSE /\ db' = [db EXCEPT !.interview_answers = @ \o h.answers]
               /\ saving' = [saving EXCEPT ![c] =
                      Some([h EXCEPT !.pc = "get_user_sessions"])]
               /\ UNCHANGED <<sessions, clock, ret, successful_calls, pending>>

\* the rows of interview_sessions that belong to the user
UserSessions(rows, user_id) ==
    SelectSeq(rows, LAMBDA row : row.user_id = user_id)

RECURSIVE SumOf(_, _)
SumOf(rows, key) ==
    IF rows = <<>> THEN 0
    ELSE Head(rows).session_data[key] + SumOf(Tail(rows), key)

\* the stats_data upsert_user_statistics computes from the user's sessions
stats_data(user_id, rows) ==
    [ user_id |-> user_id,
      total_interviews |-> Len(rows),
      total_questions_answered |-> SumOf(rows, "answered_questions"),
      total_time_spent_seconds |-> SumOf(rows, "duration_seconds") ]

\* resolution=merge-duplicates on user_id: the user's row is replaced, or added
upsert(table, row) ==
    IF \E i \in 1..Len(table) : table[i].user_id = row.user_id
    THEN [ i \in 1..Len(table) |->
             IF table[i].user_id = row.user_id THEN row ELSE table[i] ]
    ELSE Append(table, row)

\* upsert_user_statistics up to its second suspension: get_user_sessions
\* returned the user's rows as they are now (ok) or raised.  The function
\* catches every exception and its result is not looked at, so the handler
\* responds with saved_to_database true when it raised or found no rows.
GetUserSessions(c, ok) ==
    /\ saving[c] # None
    /\ saving[c][1].pc = "get_user_sessions"
    /\ LET h == saving[c][1]
           rows == UserSessions(db.interview_sessions, h.user_id)
       IN IF ~ok \/ rows = <<>>
          THEN /\ JSONResponse(c, h.summary, TRUE, Some(h.db_session_id))
               /\ UNCHANGED <<sessions, clock, successful_calls, db>>
          ELSE /\ saving' = [saving EXCEPT ![c] =
                      Some([h EXCEPT !.pc = "upsert_user_statistics",
                                     !.stats_data = Some(stats_data(h.user_id, rows))])]
               /\ UNCHANGED <<sessions, clock, ret, successful_calls, pending, db>>

\* the upsert of the statistics row returned (ok) or raised: the handler
\* responds
UpsertUserStatistics(c, ok) ==
    /\ saving[c] # None
    /\ saving[c][1].pc = "upsert_user_statistics"
    /\ LET h == saving[c][1]
       IN /\ JSONResponse(c, h.summary, TRUE, Some(h.db_session_id))
          /\ db' = IF ok
                   THEN [db EXCEPT !.interview_statistics = upsert(@, h.stats_data[1])]
                   ELSE db
          /\ UNCHANGED <<sessions, clock, successful_calls>>

\* One session, the answer and skip requests on it and the summary requests,
\* whose inserts suspend the handler while other requests are served.
NextSummary ==
    \/ \E questions \in GeneratedLists :
           DOMAIN sessions = {} /\ CreateSessionEndpoint(questions)
    \/ \E c \in Clients, sid \in DOMAIN sessions \cup {0} : Arrive(c, sid)
    \/ \E c \in Clients, a \in SummaryAnswers, t \in HttpTimes, reply \in SummaryReplies :
           SubmitAnswerEndpoint(c, a, t, reply)
    \/ \E c \in Clients : SkipQuestionEndpoint(c)
    \/ \E c \in Clients, user \in Users : GetSessionSummaryEndpoint(c, user)
    \/ \E c \in Clients, ok \in BOOLEAN : InsertCompletedSession(c, ok)
    \/ \E c \in Clients, ok \in BOOLEAN : InsertAnswersBulk(c, ok)
    \/ \E c \in Clients, ok \in BOOLEAN : GetUserSessions(c, ok)
    \/ \E c \in Clients, ok \in BOOLEAN : UpsertUserStatistics(c, ok)

SpecSummary == Init /\ [][NextSummary]_vars

\* One client's requests on one session, with every kind of gateway reply:
\* failures, text that is not JSON, JSON that is not an object, objects with
\* missing keys or a score that is not a number, an empty acknowledgment.
GatewayClient == "c1"

GatewayResponderReplies == ResponderReplies \cup {Some("")}

NextGateway ==
    \/ \E questions \in GeneratedLists :
           DOMAIN sessions = {} /\ CreateSessionEndpoint(questions)
    \/ \E sid \in DOMAIN sessions \cup {0} : Arrive(GatewayClient, sid)
    \/ \E a \in HttpAnswers, t \in HttpTimes, reply \in EvaluationReplies :
           SubmitAnswerEndpoint(GatewayClient, a, t, reply)
    \/ SkipQuestionEndpoint(GatewayClient)
    \/ \E a \in HttpAnswers, t \in HttpTimes,
          reply \in GatewayResponderReplies, hash \in Hashes :
           ConversationalAnswerEndpoint(GatewayClient, a, t, reply, hash)

SpecGateway == Init /\ [][NextGateway]_vars

\* ------------------------------------- the evaluator and the responder alone
\* evaluate_answer, generate_fallback_evaluation, generate_interviewer_response
\* and generate_fallback_response called directly, on answers around every
\* length threshold and on every kind of gateway reply.
MaxScoreExcess == 3

MaxFollowUps == 3

MaxHash == 8

RECURSIVE Repeat(_, _)
Repeat(str, n) ==
    IF n = 0 THEN ""
    ELSE LET half == Repeat(str, n \div 2)
         IN IF n % 2 = 0 THEN half \o half ELSE half \o half \o str

Chars(n) == Repeat("x", n)

Padded(n) == "\t " \o Chars(n) \o " \r\n"

Words(n) == Repeat("w ", n)

EvaluatorLengths == {0, 5, 9, 10, 48, 49, 50, 100, 148, 149, 150, 200}

EvaluatorAnswers ==
    {Chars(n) : n \in EvaluatorLengths} \cup {Padded(n) : n \in EvaluatorLengths}

EvaluatorScores == (0 - MaxScoreExcess)..(10 + MaxScoreExcess)

EvaluatorReplies ==
    EvaluationReplies \cup
    { Some(Reply("object", Some(Text("Noted.")), Some(Number(v)), Some(None))) :
          v \in EvaluatorScores }

ResponderAnswers ==
    {"", "ok", Words(14), Words(15), Words(20), Repeat("a\tb ", 7), Repeat("a\tb ", 8)}

FollowUpCounts == 0..MaxFollowUps

PreviousTopics == {None} \cup {Some(c) : c \in Categories}

TopicsUsed == {None, Some(<< >>), Some(<< "introduction", "behavioral" >>)}

ResponderHashes == (0 - 1)..MaxHash

\* the behaviour rule that goes into the system prompt
behavioral_instruction(candidate_answer, follow_up_count, skip_flag) ==
    IF skip_flag THEN "skipped"
    ELSE IF follow_up_count >= 2 THEN "stop_follow_ups"
    ELSE IF WordCount(candidate_answer) < 15 THEN "brief"
    ELSE ""

EvaluateAnswer(candidate_answer, reply) ==
    /\ ret' = Ret("evaluate_answer", 0, "",
                  [ evaluation |-> evaluate_answer(candidate_answer, reply),
                    reply |-> reply ],
                  None, candidate_answer, None)
    /\ UNCHANGED <<sessions, clock, successful_calls, pending, db, saving>>

GenerateFallbackEvaluation(answer) ==
    /\ ret' = Ret("generate_fallback_evaluation", 0, "",
                  [evaluation |-> generate_fallback_evaluation(answer)],
                  None, answer, None)
    /\ UNCHANGED <<sessions, clock, successful_calls, pending, db, saving>>

GenerateInterviewerResponse(candidate_answer, follow_up_count, skip_flag, previous_topic, topics_used, reply, hash) ==
    /\ ret' = Ret("generate_interviewer_response", 0, "",
                  [ response |->
                        generate_interviewer_response(candidate_answer, skip_flag,
                                                      reply, hash),
                    instruction |->
                        behavioral_instruction(candidate_answer, follow_up_count,
                                               skip_flag),
                    follow_up_count |-> follow_up_count,
                    skip_flag |-> skip_flag,
                    previous_topic |-> previous_topic,
                    topics_used |-> topics_used,
                    reply |-> reply,
                    hash |-> hash ],
                  None, candidate_answer, None)
    /\ UNCHANGED <<sessions, clock, successful_calls, pending, db, saving>>

GenerateFallbackResponse(answer, skip_flag, hash) ==
    /\ ret' = Ret("generate_fallback_response", 0, "",
                  [ response |-> generate_fallback_response(answer, skip_flag, hash),
                    skip_flag |-> skip_flag,
                    hash |-> hash ],
                  None, answer, None)
    /\ UNCHANGED <<sessions, clock, successful_calls, pending, db, saving>>

\* The functions keep nothing between calls, so a behaviour is one call.
NextEvaluator ==
    \/ \E a \in EvaluatorAnswers, reply \in EvaluatorReplies :
           ret.op = "init" /\ EvaluateAnswer(a, reply)
    \/ \E a \in EvaluatorAnswers :
           ret.op = "init" /\ GenerateFallbackEvaluation(a)
    \/ \E a \in ResponderAnswers, n \in FollowUpCounts, skip_flag \in BOOLEAN,
          previous_topic \in PreviousTopics, topics_used \in TopicsUsed,
          reply \in GatewayResponderReplies, hash \in ResponderHashes :
           /\ ret.op = "init"
           /\ GenerateInterviewerResponse(a, n, skip_flag, previous_topic,
                                          topics_used, reply, hash)
    \/ \E a \in ResponderAnswers, skip_flag \in BOOLEAN, hash \in ResponderHashes :
           ret.op = "init" /\ GenerateFallbackResponse(a, skip_flag, hash)

SpecEvaluator == Init /\ [][NextEvaluator]_vars

\* ------------------------------------------------- properties of the class
Questions(sid) == sessions[sid].questions

Pointer(sid) == sessions[sid].current_question_index

Responses(sid) == sessions[sid].responses

Terminal(sid) == sessions[sid].status \in {COMPLETED, ABANDONED}

\* a submit_answer or skip_question call on the session in this step
SubmitOrSkip(sid) ==
    \/ \E a \in AnswerTexts, t \in TimesTaken : SubmitAnswer(sid, a, t)
    \/ SkipQuestion(sid)

\* the log entry at position i is the one recorded for questions[i]
RecordedFor(s, i) ==
    /\ s.responses[i].question_text = s.questions[i].question
    /\ s.responses[i].question_id =
          (IF s.questions[i].id = None THEN i ELSE s.questions[i].id[1])

\* C1: the call that makes the number of successful submit_answer /
\* skip_question calls on a session equal to its number N of questions leaves
\* the session completed, with a log of exactly N entries in question order.
C1_CompletedAfterNCalls ==
    [][\A sid \in DOMAIN sessions :
          (/\ successful_calls'[sid] # successful_calls[sid]
           /\ successful_calls'[sid] = Len(Questions(sid)))
          => /\ sessions'[sid].status = COMPLETED
             /\ Len(sessions'[sid].responses) = Len(Questions(sid))
             /\ \A i \in 1..Len(Questions(sid)) : RecordedFor(sessions'[sid], i)]_vars

\* three questions, answered, skipped and answered: completed with the log in order
C1_Witness ==
    \E sid \in DOMAIN sessions :
        /\ Len(Questions(sid)) = 3
        /\ successful_calls[sid] = 3
        /\ sessions[sid].status = COMPLETED
        /\ ret.op = "submit_answer" /\ ret.err = ""
        /\ ~Responses(sid)[1].skipped
        /\ Responses(sid)[2].skipped
        /\ ~Responses(sid)[3].skipped

\* C2: a submit_answer or skip_question call on a completed or abandoned
\* session raises "Session is not in progress" and leaves the pointer, the
\* response log, the status and the end timestamp as they were.
C2_TerminalRejects ==
    [][\A sid \in DOMAIN sessions :
          (Terminal(sid) /\ SubmitOrSkip(sid))
          => /\ ret'.err = "Session is not in progress"
             /\ sessions'[sid].current_question_index = Pointer(sid)
             /\ sessions'[sid].responses = Responses(sid)
             /\ sessions'[sid].status = sessions[sid].status
             /\ sessions'[sid].end_time = sessions[sid].end_time]_vars

\* a skip rejected on a session abandoned before its last question
C2_Witness ==
    \E sid \in DOMAIN sessions :
        /\ ret.op = "skip_question" /\ ret.sid = sid
        /\ ret.err = "Session is not in progress"
        /\ sessions[sid].status = ABANDONED
        /\ Pointer(sid) < Len(Questions(sid))

\* C3: whatever the order in which the requests in flight on a session are
\* served, the pointer equals the number of responses, no question has two
\* responses, and the responses are in question order.
C3_OneResponsePerQuestion ==
    \A sid \in DOMAIN sessions :
        LET r == Responses(sid)
        IN /\ Pointer(sid) = Len(r)
           /\ \A i, j \in 1..Len(r) :
                  i # j => r[i].question_text # r[j].question_text
           /\ \A i \in 1..Len(r) :
                  /\ i <= Len(Questions(sid))
                  /\ r[i].question_text = Questions(sid)[i].question

\* an answer and then a skip were served on a session while a further
\* request on the same session is in flight
C3_Witness ==
    \E sid \in DOMAIN sessions, c \in Clients :
        /\ pending[c] = Some(sid)
        /\ ret.op = "skip_question_endpoint" /\ ret.sid = sid /\ ret.err = ""
        /\ Len(Responses(sid)) = 2
        /\ ~Responses(sid)[1].skipped /\ Responses(sid)[2].skipped

\* C4: the pointer equals the length of the response log and never exceeds
\* the number of questions, and no operation decreases it.
C4_PointerIsLogLength ==
    /\ [](\A sid \in DOMAIN sessions :
            /\ Pointer(sid) = Len(Responses(sid))
            /\ Pointer(sid) <= Len(Questions(sid)))
    /\ [][\A sid \in DOMAIN sessions :
            sessions'[sid].current_question_index >= Pointer(sid)]_vars

\* a session abandoned with the pointer in the middle of the list
C4_Witness ==
    \E sid \in DOMAIN sessions :
        /\ Pointer(sid) = 2 /\ Len(Questions(sid)) = 3
        /\ sessions[sid].status = ABANDONED
        /\ ret.op = "get_current_question"

\* C5: the response at index i of the log carries the question_id and the
\* question_text of the question at index i of the sequence.
C5_ResponseAtQuestionIndex ==
    \A sid \in DOMAIN sessions :
        \A i \in 1..Len(Responses(sid)) :
            i <= Len(Questions(sid)) /\ RecordedFor(sessions[sid], i)

\* a log of two entries for questions whose ids are not their positions
C5_Witness ==
    \E sid \in DOMAIN sessions :
        /\ Len(Responses(sid)) = 2
        /\ Questions(sid)[2].id # None
        /\ Questions(sid)[2].id # Some(2)
        /\ Responses(sid)[1].skipped /\ ~Responses(sid)[2].skipped

\* C6: the answered_count and skipped_count returned by get_session_summary
\* sum to the length of the response log.
C6_SummaryCountsSum ==
    ret.op = "get_session_summary" =>
        ret.result.answered_count + ret.result.skipped_count
            = Len(Responses(ret.sid))

\* the summary of a session abandoned after one answer and one skip
C6_Witness ==
    /\ ret.op = "get_session_summary"
    /\ ret.result.status = ABANDONED
    /\ ret.result.answered_count = 1
    /\ ret.result.skipped_count = 1
    /\ ret.result.total_questions = 3

\* C7: the terminal statuses are absorbing: no operation changes the status
\* of a completed or abandoned session, and a submit_answer, skip_question or
\* abandon_session call on it fails.
C7_TerminalAbsorbing ==
    [][\A sid \in DOMAIN sessions :
          Terminal(sid) =>
              /\ sessions'[sid].status = sessions[sid].status
              /\ (SubmitOrSkip(sid) \/ AbandonSession(sid)) => ret'.err # ""]_vars

\* C8: a session with N >= 1 questions is never in progress with the pointer
\* at N: the call that advances the pointer to N completes the session.
C8_CompletedWhenExhausted ==
    /\ [](\A sid \in DOMAIN sessions :
            Len(Questions(sid)) >= 1 =>
                ~(sessions[sid].status = IN_PROGRESS
                  /\ Pointer(sid) = Len(Questions(sid))))
    /\ [][\A sid \in DOMAIN sessions :
            (/\ Pointer(sid) < Len(Questions(sid))
             /\ sessions'[sid].current_question_index = Len(Questions(sid)))
            => /\ sessions'[sid].status = COMPLETED
               /\ sessions'[sid].end_time = Some(clock)
               /\ ret'.result.status = "completed"]_vars

\* one question, skipped: the single call completes the session
C8_Witness ==
    \E sid \in DOMAIN sessions :
        /\ Len(Questions(sid)) = 1
        /\ ret.op = "skip_question" /\ ret.sid = sid
        /\ ret.result.status = "completed"
        /\ ret.result.answered = 0 /\ ret.result.skipped = 1
        /\ sessions[sid].status = COMPLETED

\* C9: get_current_question with the pointer at the end of the sequence
\* returns None; on an in-progress session it sets the status to completed and
\* the end timestamp, on any other session it changes nothing.
C9_ExhaustedReadCompletesOnce ==
    [][\A sid \in DOMAIN sessions :
          (GetCurrentQuestion(sid) /\ Pointer(sid) = Len(Questions(sid)))
          => /\ ret'.question = None
             /\ IF sessions[sid].status = IN_PROGRESS
                THEN sessions'[sid] =
                        [sessions[sid] EXCEPT !.status = COMPLETED,
                                              !.end_time = Some(clock)]
                ELSE sessions'[sid] = sessions[sid]]_vars

\* an empty session completed by a read, read again at a later time
C9_Witness ==
    \E sid \in DOMAIN sessions :
        /\ Len(Questions(sid)) = 0
        /\ ret.op = "get_current_question" /\ ret.question = None
        /\ sessions[sid].status = COMPLETED
        /\ sessions[sid].end_time # Some(clock)

\* C10: when the conversational-answer handler answers a question whose
\* category differs from that of the question of the previous turn, it leaves
\* the follow-up counter at 0 and previous_topic at the new category, and
\* topics_used holds the new category exactly once.
C10_TopicChangeResets ==
    [][\A sid \in DOMAIN sessions :
          LET p == Pointer(sid)
              q == Questions(sid)
          IN (/\ ret'.op = "conversational_answer_endpoint"
              /\ ret'.sid = sid /\ ret'.err = ""
              /\ sessions'[sid].current_question_index = p + 1
              /\ p >= 1
              /\ q[p + 1].category # q[p].category)
             => /\ sessions'[sid].follow_up_count = 0
                /\ sessions'[sid].previous_topic = Some(q[p + 1].category)
                /\ sessions'[sid].topics_used =
                      IF \E k \in 1..Len(sessions[sid].topics_used) :
                             sessions[sid].topics_used[k] = q[p + 1].category
                      THEN sessions[sid].topics_used
                      ELSE Append(sessions[sid].topics_used, q[p + 1].category)]_vars

\* the handler named op serves a client's request on the session in this
\* step: the request leaves the requests in flight and op has returned
Served(sid, op) ==
    /\ \E c \in Clients : pending[c] = Some(sid) /\ pending'[c] = None
    /\ ret'.op = op /\ ret'.sid = sid

\* a conversational-answer request on the session is served in this step
ConversationalTurn(sid) == Served(sid, "conversational_answer_endpoint")

\* C11: a conversational-answer request that reaches the responder hands it
\* the session's skip flag and leaves the flag false; the flag becomes true
\* only in a skip request, so after one skip at most one later conversational
\* turn is answered as coming back from a skip.
C11_SkipFlagConsumedOnce ==
    [][\A sid \in DOMAIN sessions :
          /\ (ConversationalTurn(sid) /\ ret'.err = "")
              => /\ ret'.result.skip_flag = sessions[sid].skip_flag
                 /\ sessions'[sid].skip_flag = FALSE
          /\ (sessions'[sid].skip_flag /\ ~sessions[sid].skip_flag)
              => ret'.op = "skip_question_endpoint"]_vars

\* the conversational turn after a skip: the responder was told of the skip
\* and the flag is false again
C11_Witness ==
    \E sid \in DOMAIN sessions :
        /\ ret.op = "conversational_answer_endpoint" /\ ret.sid = sid /\ ret.err = ""
        /\ ret.result.skip_flag
        /\ ret.result.interviewer_response = "No worries, we can revisit that later."
        /\ ~sessions[sid].skip_flag
        /\ Responses(sid)[1].skipped

\* a skip request on the session is served in this step
SkipRequest(sid) == Served(sid, "skip_question_endpoint")

\* C12: a skip request that succeeds on an in-progress session leaves the
\* session's skip flag true and its follow-up counter 0.
C12_SkipSetsFlagResetsCounter ==
    [][\A sid \in DOMAIN sessions :
          (/\ SkipRequest(sid)
           /\ sessions[sid].status = IN_PROGRESS
           /\ ret'.err = "")
          => /\ sessions'[sid].skip_flag
             /\ sessions'[sid].follow_up_count = 0]_vars

\* a skip served after a conversational turn had cleared the flag
C12_Witness ==
    \E sid \in DOMAIN sessions :
        /\ ret.op = "skip_question_endpoint" /\ ret.sid = sid /\ ret.err = ""
        /\ Len(Responses(sid)) = 2
        /\ ~Responses(sid)[1].skipped /\ Responses(sid)[2].skipped
        /\ Len(sessions[sid].conversation_history) = 2
        /\ sessions[sid].skip_flag
        /\ sessions[sid].follow_up_count = 0

\* C13: a successful submit_answer or skip_question call that moves the
\* pointer to N returns a completion outcome with total N and the numbers of
\* non-skipped and skipped log entries; any other successful call returns the
\* question at the new pointer, annotated with position pointer + 1.
C13_OutcomeOfSuccessfulCall ==
    [][\A sid \in DOMAIN sessions :
          (SubmitOrSkip(sid) /\ ret'.err = "")
          => LET s2 == sessions'[sid]
                 p2 == s2.current_question_index
                 N == Len(s2.questions)
             IN IF p2 = N
                THEN /\ ret'.result.status = "completed"
                     /\ ret'.result.total_questions = N
                     /\ ret'.result.answered = NotSkipped(s2.responses)
                     /\ ret'.result.skipped = Skipped(s2.responses)
                ELSE /\ ret'.result.status \in {"success", "skipped"}
                     /\ ret'.question # None
                     /\ ret'.question[1].question = s2.questions[p2 + 1].question
                     /\ ret'.question[1].id = s2.questions[p2 + 1].id
                     /\ ret'.question[1].question_number = p2 + 1
                     /\ ret'.question[1].total_questions = N
                     /\ ret'.question[1].session_id = sid]_vars

\* the second of three questions was answered: the outcome carries the third
C13_Witness ==
    \E sid \in DOMAIN sessions :
        /\ ret.op = "submit_answer" /\ ret.sid = sid /\ ret.err = ""
        /\ ret.result.status = "success"
        /\ Len(Questions(sid)) = 3 /\ Pointer(sid) = 2
        /\ ret.question # None
        /\ ret.question[1].question_number = 3
        /\ ret.question[1].question = Questions(sid)[3].question

\* C14: a successful submit_answer appends exactly one response with
\* skipped = false and the answer text and elapsed time it was given, a
\* successful skip_question appends exactly one response with skipped = true,
\* an empty answer text and elapsed time 0; each advances the pointer by one
\* and leaves the earlier log entries as they were.
C14_AppendsOneResponse ==
    [][\A sid \in DOMAIN sessions :
          LET old == Responses(sid)
              new == sessions'[sid].responses
              n == Len(old) + 1
              Appended == /\ Len(new) = n
                          /\ SubSeq(new, 1, n - 1) = old
                          /\ sessions'[sid].current_question_index = Pointer(sid) + 1
          IN /\ \A a \in AnswerTexts, t \in TimesTaken :
                    (SubmitAnswer(sid, a, t) /\ ret'.err = "")
                    => /\ Appended
                       /\ ~new[n].skipped
                       /\ new[n].answer_text = a
                       /\ new[n].time_taken_seconds = t
             /\ (SkipQuestion(sid) /\ ret'.err = "")
                    => /\ Appended
                       /\ new[n].skipped
                       /\ new[n].answer_text = ""
                       /\ new[n].time_taken_seconds = Some(0)]_vars

\* a skip and then an answer with an empty text and no elapsed time
C14_Witness ==
    \E sid \in DOMAIN sessions :
        /\ ret.op = "submit_answer" /\ ret.sid = sid /\ ret.err = ""
        /\ ret.answer_text = "" /\ ret.time_taken_seconds = None
        /\ Len(Responses(sid)) = 2
        /\ Responses(sid)[1].skipped
        /\ Responses(sid)[1].time_taken_seconds = Some(0)
        /\ ~Responses(sid)[2].skipped
        /\ Responses(sid)[2].time_taken_seconds = None

\* C15: abandon_session, in any status and at any pointer, sets the status
\* to abandoned and the end timestamp to the current time and leaves the
\* pointer, the response log and the question sequence as they were.
C15_AbandonFrame ==
    [][\A sid \in DOMAIN sessions :
          AbandonSession(sid)
          => /\ sessions'[sid].status = ABANDONED
             /\ sessions'[sid].end_time = Some(clock)
             /\ sessions'[sid].current_question_index = Pointer(sid)
             /\ sessions'[sid].responses = Responses(sid)
             /\ sessions'[sid].questions = Questions(sid)]_vars

\* a session that had completed its two questions, abandoned afterwards
C15_Witness ==
    \E sid \in DOMAIN sessions :
        /\ ret.op = "abandon_session" /\ ret.sid = sid
        /\ sessions[sid].status = ABANDONED
        /\ Len(Questions(sid)) = 2 /\ Pointer(sid) = 2
        /\ Len(Responses(sid)) = 2
        /\ sessions[sid].end_time = Some(clock)
        /\ clock = MaxClock

\* the gateway gave nothing usable for an evaluation / an acknowledgment
NoEvaluation(reply) == reply = None \/ reply[1].kind # "object"

NoAcknowledgment(reply) == reply = None \/ reply = Some("")

\* the request served in this step found the session in progress with a
\* current question, recorded one response and advanced the pointer by one
Recorded(sid, answer_text) ==
    /\ ret'.err = ""
    /\ sessions'[sid].current_question_index = Pointer(sid) + 1
    /\ Len(sessions'[sid].responses) = Len(Responses(sid)) + 1
    /\ sessions'[sid].responses[Len(Responses(sid)) + 1].answer_text = answer_text

\* C16: an answer or conversational-answer request on an in-progress session
\* with a current question succeeds whatever the gateway returned, records the
\* response and advances the pointer by one; the evaluation has a score in
\* 1..10, and when the gateway gave nothing usable the evaluation or the
\* acknowledgment is the fallback one.
C16_GatewayFailureStillRecords ==
    [][\A sid \in DOMAIN sessions :
          (/\ pending[GatewayClient] = Some(sid)
           /\ sessions[sid].status = IN_PROGRESS
           /\ Pointer(sid) < Len(Questions(sid)))
          => /\ \A a \in HttpAnswers, t \in HttpTimes, reply \in EvaluationReplies :
                    SubmitAnswerEndpoint(GatewayClient, a, t, reply)
                    => /\ Recorded(sid, a)
                       /\ ret'.result.evaluation.score \in 1..10
                       /\ (NoEvaluation(reply) /\ Len(Strip(a)) >= 10)
                           => ret'.result.evaluation = generate_fallback_evaluation(a)
             /\ \A a \in HttpAnswers, t \in HttpTimes,
                   reply \in GatewayResponderReplies, hash \in Hashes :
                    ConversationalAnswerEndpoint(GatewayClient, a, t, reply, hash)
                    => /\ Recorded(sid, a)
                       /\ NoAcknowledgment(reply)
                           => ret'.result.interviewer_response =
                                  generate_fallback_response(
                                      a, sessions[sid].skip_flag, hash)]_vars

\* the gateway failed on the evaluation of a substantial answer: the request
\* returned the fallback evaluation and the answer is in the log
C16_Witness ==
    \E sid \in DOMAIN sessions :
        /\ ret.op = "submit_answer_endpoint" /\ ret.sid = sid /\ ret.err = ""
        /\ ret.answer_text = "I built a REST API"
        /\ ret.result.evaluation = generate_fallback_evaluation(ret.answer_text)
        /\ Len(Responses(sid)) = 2
        /\ Responses(sid)[2].answer_text = ret.answer_text
        /\ Responses(sid)[2].score = Some(4)
        /\ Len(sessions[sid].conversation_history) = 2
        /\ sessions[sid].conversation_history[2].message = "I see. Thanks for that."

\* C17: the summary handler inserts a session row only for a session whose
\* status is completed; a summary request for a session in progress leaves
\* the tables as they were.
C17_SavesOnlyCompleted ==
    [][\A c \in Clients, ok \in BOOLEAN :
          (InsertCompletedSession(c, ok) /\ db' # db)
          => sessions[pending[c][1]].status = COMPLETED]_vars

\* C18: create registers the new session under an identifier no stored
\* session has and leaves every stored session as it was; no operation
\* removes a store entry or changes the questions and the start time of the
\* session stored under an identifier; get_session returns the stored session
\* and None for an identifier that was never issued.
C18_StoreKeepsSessions ==
    [][/\ DOMAIN sessions \subseteq DOMAIN sessions'
       /\ \A sid \in DOMAIN sessions :
              /\ sessions'[sid].questions = sessions[sid].questions
              /\ sessions'[sid].start_time = sessions[sid].start_time
       /\ \A questions \in StoreQuestionLists :
              (Cardinality(DOMAIN sessions) < MaxSessions /\ CreateSession(questions))
              => /\ ret'.sid \notin DOMAIN sessions
                 /\ DOMAIN sessions' = DOMAIN sessions \cup {ret'.sid}
                 /\ sessions'[ret'.sid] = NewSession(questions, clock)
                 /\ \A sid \in DOMAIN sessions : sessions'[sid] = sessions[sid]
       /\ \A sid \in SessionIds \cup {0} :
              GetSession(sid)
              => ret'.result.session =
                    (IF sid \in DOMAIN sessions THEN Some(sessions[sid]) ELSE None)]_vars

\* two sessions in the store: the first, completed before, is looked up and
\* found as it is while the second is in progress
C18_Witness ==
    /\ DOMAIN sessions = {1, 2}
    /\ ret.op = "get_session" /\ ret.sid = 1
    /\ ret.result.session = Some(sessions[1])
    /\ sessions[1].status = COMPLETED
    /\ Len(sessions[1].responses) = 2
    /\ sessions[2].status = IN_PROGRESS
    /\ Len(sessions[2].responses) = 1

\* C19: no operation changes the stored question sequence; on an in-progress
\* session with a current question get_current_question returns that question
\* with question_number = pointer + 1, total_questions = N and the session id
\* added, and the stored question has none of the three keys afterwards.
C19_QuestionsNeverChange ==
    [][\A sid \in DOMAIN sessions :
          /\ sessions'[sid].questions = Questions(sid)
          /\ (/\ GetCurrentQuestion(sid)
              /\ sessions[sid].status = IN_PROGRESS
              /\ Pointer(sid) < Len(Questions(sid)))
             => LET stored == sessions'[sid].questions[Pointer(sid) + 1]
                IN /\ ret'.question # None
                   /\ ret'.question[1].id = stored.id
                   /\ ret'.question[1].question = stored.question
                   /\ ret'.question[1].category = stored.category
                   /\ ret'.question[1].question_number = Pointer(sid) + 1
                   /\ ret'.question[1].total_questions = Len(Questions(sid))
                   /\ ret'.question[1].session_id = sid
                   /\ DOMAIN stored = {"id", "question", "category"}]_vars

\* the second question of three was read: the copy is annotated, the stored
\* question is not
C19_Witness ==
    \E sid \in DOMAIN sessions :
        /\ ret.op = "get_current_question" /\ ret.sid = sid
        /\ ret.question # None
        /\ ret.question[1].question_number = 2
        /\ ret.question[1].total_questions = 3
        /\ Pointer(sid) = 1
        /\ DOMAIN Questions(sid)[2] = {"id", "question", "category"}
        /\ Questions(sid)[2].question = ret.question[1].question

\* C20: get_session_summary returns in every status and changes no field of
\* any session; the duration it reports is 0 when the end timestamp is unset
\* and the time from start to end otherwise.
C20_SummaryIsPureRead ==
    [][\A sid \in DOMAIN sessions :
          GetSessionSummary(sid)
          => /\ sessions' = sessions
             /\ ret'.err = ""
             /\ ret'.result.status = sessions[sid].status
             /\ ret'.result.duration_seconds =
                   (IF sessions[sid].end_time = None THEN 0
                    ELSE sessions[sid].end_time[1] - sessions[sid].start_time)]_vars

\* the summary of a session still in progress, taken after time has passed
C20_Witness ==
    \E sid \in DOMAIN sessions :
        /\ ret.op = "get_session_summary" /\ ret.sid = sid
        /\ ret.result.status = IN_PROGRESS
        /\ ret.result.end_time = None
        /\ ret.result.duration_seconds = 0
        /\ clock > sessions[sid].start_time
        /\ Len(Responses(sid)) = 1


\* C21: whatever the answer and whatever the gateway returned (nothing, text
\* that is not JSON, JSON that is not an object, an object with no score, with
\* a score that is not a number, or with any number), the score evaluate_answer
\* returns is an integer from 1 to 10.
C21_ScoreInRange ==
    ret.op = "evaluate_answer" => ret.result.evaluation.score \in 1..10

\* a substantial answer whose reply carried a score above 10 was evaluated
C21_Witness ==
    /\ ret.op = "evaluate_answer"
    /\ Len(Strip(ret.answer_text)) >= 10
    /\ ret.result.reply # None
    /\ ret.result.reply[1].kind = "object"
    /\ ret.result.reply[1].score # None
    /\ ret.result.reply[1].score[1].numeric
    /\ ret.result.reply[1].score[1].value = 10 + MaxScoreExcess
    /\ ret.result.evaluation.score = 10

\* The call in ret ran generate_fallback_evaluation: it was the call itself,
\* or evaluate_answer got past its return for an empty answer or one of fewer
\* than 10 trimmed characters and the gateway gave nothing it could parse
\* into an object.
FellBack ==
    \/ ret.op = "generate_fallback_evaluation"
    \/ /\ ret.op = "evaluate_answer"
       /\ ret.answer_text # ""
       /\ Len(Strip(ret.answer_text)) >= 10
       /\ NoEvaluation(ret.result.reply)

TrimmedLength == Len(Strip(ret.answer_text))

\* C22: the evaluator's fallback depends only on the trimmed length of the
\* answer (its result is the one for a bare answer of that length): an answer
\* of 5 trimmed characters gets score 4 and a follow-up suggestion, one of 50
\* to 149 characters gets 6 and no follow-up, one of 200 characters gets 7
\* and no follow-up.
C22_FallbackByLength ==
    FellBack =>
        LET e == ret.result.evaluation
        IN /\ e = generate_fallback_evaluation(Chars(TrimmedLength))
           /\ TrimmedLength = 5 =>
                  e.score = 4 /\ e.follow_up_question # None
           /\ (TrimmedLength >= 50 /\ TrimmedLength < 150) =>
                  e.score = 6 /\ e.follow_up_question = None
           /\ TrimmedLength = 200 =>
                  e.score = 7 /\ e.follow_up_question = None

\* the fallback ran on a padded answer of 5 trimmed characters
C22_Witness ==
    /\ FellBack
    /\ TrimmedLength = 5
    /\ Len(ret.answer_text) > 5
    /\ ret.result.evaluation.score = 4
    /\ ret.result.evaluation.follow_up_question # None

\* C23: generate_fallback_response called with skip_flag set returns the one
\* skip acknowledgment for every answer and every hash, and so does
\* generate_interviewer_response with skip_flag set when the gateway gives
\* nothing, for every follow-up count, previous topic and topics list.
C23_SkipAcknowledgmentFixed ==
    /\ (ret.op = "generate_fallback_response" /\ ret.result.skip_flag) =>
           ret.result.response = "No worries, we can revisit that later."
    /\ ( /\ ret.op = "generate_interviewer_response"
         /\ ret.result.skip_flag
         /\ NoAcknowledgment(ret.result.reply) ) =>
           ret.result.response = "No worries, we can revisit that later."

\* the gateway failed on a long answer to a skipped question, after two
\* follow-ups, with a previous topic and topics already covered
C23_Witness ==
    /\ ret.op = "generate_interviewer_response"
    /\ ret.result.skip_flag
    /\ ret.result.reply = None
    /\ ret.result.follow_up_count >= 2
    /\ ret.result.previous_topic # None
    /\ ret.result.topics_used # None
    /\ ret.result.topics_used[1] # << >>
    /\ WordCount(ret.answer_text) >= 15
    /\ ret.result.response = "No worries, we can revisit that later."

\* C24: in every reachable state a session's end timestamp is unset exactly
\* when its status is in_progress, and a step changes the end timestamp only
\* by setting it to the current time while it moves the session to completed
\* (from in_progress, or by a complete_session call) or to abandoned (by an
\* abandon_session call).
C24_EndTimeIffNotInProgress ==
    /\ [](\A sid \in DOMAIN sessions :
              sessions[sid].end_time = None <=> sessions[sid].status = IN_PROGRESS)
    /\ [][\A sid \in DOMAIN sessions :
              sessions'[sid].end_time # sessions[sid].end_time
              => /\ sessions'[sid].end_time = Some(clock)
                 /\ \/ /\ sessions'[sid].status = COMPLETED
                       /\ sessions[sid].status = IN_PROGRESS \/ CompleteSession(sid)
                    \/ /\ sessions'[sid].status = ABANDONED
                       /\ AbandonSession(sid)]_vars

\* one session ended by its last answer, after the clock had advanced
C24_Witness ==
    \E sid \in DOMAIN sessions :
        /\ ret.op = "submit_answer" /\ ret.sid = sid /\ ret.err = ""
        /\ sessions[sid].status = COMPLETED
        /\ sessions[sid].end_time = Some(clock)
        /\ clock > sessions[sid].start_time
        /\ Len(Responses(sid)) = Len(Questions(sid))
        /\ Len(Questions(sid)) >= 2

\* C25: a submit_answer or skip_question call fails with "No more questions
\* available" exactly when the session is in progress with its pointer at or
\* past the end of the questions; the call then leaves the session as it was,
\* and the session is one created with no questions.
C25_ExhaustedOnlyWhenEmpty ==
    [][\A sid \in DOMAIN sessions :
          SubmitOrSkip(sid)
          => /\ ret'.err = "No more questions available"
                <=> /\ sessions[sid].status = IN_PROGRESS
                    /\ Pointer(sid) >= Len(Questions(sid))
             /\ ret'.err = "No more questions available"
                => /\ sessions'[sid] = sessions[sid]
                   /\ Len(Questions(sid)) = 0]_vars

\* a skip was refused as exhausted on a session of no questions that is still
\* in progress
C25_Witness ==
    \E sid \in DOMAIN sessions :
        /\ ret.op = "skip_question" /\ ret.sid = sid
        /\ ret.err = "No more questions available"
        /\ Len(Questions(sid)) = 0
        /\ sessions[sid].status = IN_PROGRESS
        /\ Responses(sid) = << >>

\* C26: the follow-up counter of every session is 0 in every reachable state,
\* and every conversational turn that reaches the responder hands it a
\* follow-up count of 0, so never one of 2 or more.
C26_FollowUpCountStaysZero ==
    /\ \A sid \in DOMAIN sessions : sessions[sid].follow_up_count = 0
    /\ (ret.op = "conversational_answer_endpoint" /\ ret.err = "")
           => ret.result.follow_up_count = 0

\* a turn on the second question was acknowledged after the first question
\* had been skipped
C26_Witness ==
    \E sid \in DOMAIN sessions :
        /\ ret.op = "conversational_answer_endpoint" /\ ret.sid = sid
        /\ ret.err = ""
        /\ ret.result.skip_flag
        /\ ret.result.follow_up_count = 0
        /\ Len(Responses(sid)) >= 2
        /\ sessions[sid].follow_up_count = 0

\* C27: a skip request that is refused because the session is not in progress
\* leaves the session exactly as it was, skip flag and follow-up counter
\* included.
C27_RejectedSkipChangesNothing ==
    [][\A sid \in DOMAIN sessions :
          ( /\ SkipRequest(sid)
            /\ sessions[sid].status # IN_PROGRESS )
          => /\ ret'.err # ""
             /\ sessions'[sid] = sessions[sid]]_vars

\* an answer request on the session is served in this step
AnswerRequest(sid) == Served(sid, "submit_answer_endpoint")

\* C28: an answer request that succeeds while the pointer is at i appends the
\* entry of question i to the log and merges the evaluation it returns into
\* that entry; the entries that were in the log stay as they were, whatever
\* other requests for the session are in flight.
C28_EvaluationMergedAtIndex ==
    [][\A sid \in DOMAIN sessions :
          (AnswerRequest(sid) /\ ret'.err = "")
          => LET i == Pointer(sid) + 1
                 log == sessions'[sid].responses
                 e == ret'.result.evaluation
             IN /\ Len(log) = i
                /\ SubSeq(log, 1, i - 1) = Responses(sid)
                /\ RecordedFor(sessions'[sid], i)
                /\ log[i].answer_text = ret'.answer_text
                /\ log[i].score = Some(e.score)
                /\ log[i].feedback = Some(e.feedback)
                /\ log[i].follow_up_question = Some(e.follow_up_question)]_vars

\* the answer to the second question was evaluated after the first had been
\* skipped, with another request for the session in flight
C28_Witness ==
    \E sid \in DOMAIN sessions :
        /\ ret.op = "submit_answer_endpoint" /\ ret.sid = sid /\ ret.err = ""
        /\ Len(Responses(sid)) = 2
        /\ Responses(sid)[1].skipped
        /\ Responses(sid)[1].score = None
        /\ Responses(sid)[2].score = Some(ret.result.evaluation.score)
        /\ ret.result.evaluation.score > 1
        /\ \E c \in Clients : pending[c] = Some(sid)

\* C29: however many summary requests an authenticated user makes for the one
\* session, one after the other or at the same time, the table of completed
\* sessions holds at most one row for it and the answer rows all belong to
\* that one row.
C29_SavedAtMostOnce ==
    /\ Len(db.interview_sessions) <= 1
    /\ \A i, j \in 1..Len(db.interview_answers) :
           db.interview_answers[i].session_id = db.interview_answers[j].session_id

\* C30: the progress a get-session response reports, and the progress a
\* conversational-answer response reports (it reports one while the interview
\* is not complete), has 1 <= current <= total, whatever the session's status.
C30_ProgressWithinTotal ==
    /\ (ret.op = "get_session_endpoint" /\ ret.err = "")
           => ret.result.current >= 1 /\ ret.result.current <= ret.result.total
    /\ ( /\ ret.op = "conversational_answer_endpoint"
         /\ ret.err = ""
         /\ ~ret.result.is_complete )
           => ret.result.current >= 1 /\ ret.result.current <= ret.result.total
====
